---------------------------- MODULE Spec2Model ----------------------------
(***************************************************************************)
(* OpenAI-to-AssemblyAI transcription proxy.                               *)
(*                                                                         *)
(* The program is modelled at these levels:                                *)
(*   Spec        the FastAPI application (app/main.py): two requests       *)
(*               served by the single asyncio event loop, from arrival to  *)
(*               response;                                                 *)
(*   SpecOne     the same handler serving one request, over a wider range  *)
(*               of model names and audio URLs;                            *)
(*   SpecClient  AssemblyAIClient.transcribe (assemblyai_client.py) called *)
(*               on a request object, with the provider's answers as its   *)
(*               environment;                                              *)
(*   SpecWait    AssemblyAIClient.wait_for_completion called on a          *)
(*               transcript id, with the provider's answers and the wall   *)
(*               clock as its environment;                                 *)
(*   SpecPure    the functions of app/utils.py and the error               *)
(*               classification of main.py, each applied to an argument.   *)
(*                                                                         *)
(* Python strings are sequences of one-character strings, so that the      *)
(* code's substring tests, prefix tests and lower-casing are computed and  *)
(* not assumed.  None and "" are both the empty sequence: every test the   *)
(* code makes on an optional string is a truthiness test.                  *)
(***************************************************************************)
EXTENDS Integers, Sequences, FiniteSets, TLC

----------------------------------------------------------------------------
(* Text *)

NoText == << >>

Truthy(s) == Len(s) > 0

UpperCase == <<"A","B","C","D","E","F","G","H","I","J","K","L","M",
               "N","O","P","Q","R","S","T","U","V","W","X","Y","Z">>

LowerCase == <<"a","b","c","d","e","f","g","h","i","j","k","l","m",
               "n","o","p","q","r","s","t","u","v","w","x","y","z">>

LowerChar(c) ==
    IF \E i \in 1..26 : UpperCase[i] = c
    THEN LowerCase[CHOOSE i \in 1..26 : UpperCase[i] = c]
    ELSE c

\* str.lower()
Lower(s) == [i \in 1..Len(s) |-> LowerChar(s[i])]

\* needle in haystack
Contains(haystack, needle) ==
    \E i \in 0..(Len(haystack) - Len(needle)) :
        SubSeq(haystack, i + 1, i + Len(needle)) = needle

\* str.startswith(prefix)
StartsWith(s, prefix) ==
    /\ Len(prefix) <= Len(s)
    /\ SubSeq(s, 1, Len(prefix)) = prefix

----------------------------------------------------------------------------
(* String literals of the source, and the inputs the model draws from *)

S_http ==
    <<"h","t","t","p",":","/","/">>
S_https ==
    <<"h","t","t","p","s",":","/","/">>
S_audio ==
    <<"a","u","d","i","o">>
S_wav ==
    <<".","w","a","v">>
S_mp3 ==
    <<".","m","p","3">>
S_m4a ==
    <<".","m","4","a">>
S_flac ==
    <<".","f","l","a","c">>
S_ogg ==
    <<".","o","g","g">>
S_aac ==
    <<".","a","a","c">>
S_wma ==
    <<".","w","m","a">>
S_best ==
    <<"b","e","s","t">>
S_slam1 ==
    <<"s","l","a","m","-","1">>
S_universal ==
    <<"u","n","i","v","e","r","s","a","l">>
S_whisper1 ==
    <<"w","h","i","s","p","e","r","-","1">>
S_timeout ==
    <<"t","i","m","e","o","u","t">>
S_invalid ==
    <<"i","n","v","a","l","i","d">>
S_bad_request ==
    <<"b","a","d"," ","r","e","q","u","e","s","t">>
S_unauthorized ==
    <<"u","n","a","u","t","h","o","r","i","z","e","d">>
S_not_found ==
    <<"n","o","t"," ","f","o","u","n","d">>
S_transcription_failed ==
    <<"T","r","a","n","s","c","r","i","p","t","i","o","n"," ","f","a","i","l","e","d",":">>
M_Slam1 ==
    <<"S","l","a","m","-","1">>
M_base ==
    <<"b","a","s","e">>
U_mp3 ==
    <<"h","t","t","p","s",":","/","/","h","/","a",".","M","P","3">>
U_ftp ==
    <<"f","t","p",":","/","/","h","/","a",".","m","p","3">>
U_hosted ==
    <<"h","t","t","p","s",":","/","/","c","d","n","/","u","1">>
L_EN ==
    <<"E","N">>
PR_fire ==
    <<"f","i","r","e",","," ","s","m","o","k","e"," "," ","C","a","n","a","d","a">>
E_conn ==
    <<"C","o","n","n","e","c","t","i","o","n"," ","r","e","f","u","s","e","d">>
E_attr ==
    <<"'","A","s","s","e","m","b","l","y","A","I","T","r","a","n","s","c","r","i","p","t","i","o","n","R","e","q","u","e","s","t","'"," ","o","b","j","e","c","t"," ","h","a","s"," ","n","o"," ","a","t","t","r","i","b","u","t","e"," ","'","s","p","e","a","k","e","r","_","l","a","b","e","l","s","'">>
P_upload_failed ==
    <<"F","a","i","l","e","d"," ","t","o"," ","u","p","l","o","a","d"," ","f","i","l","e",":"," ">>
E_no_upload_url ==
    <<"N","o"," ","u","p","l","o","a","d"," ","U","R","L"," ","r","e","t","u","r","n","e","d"," ","f","r","o","m"," ","A","s","s","e","m","b","l","y","A","I">>
M_no_key ==
    <<"A","s","s","e","m","b","l","y","A","I"," ","A","P","I"," ","k","e","y"," ","n","o","t"," ","c","o","n","f","i","g","u","r","e","d">>
M_bad_url ==
    <<"I","n","v","a","l","i","d"," ","a","u","d","i","o"," ","U","R","L"," ","f","o","r","m","a","t"," ","o","r"," ","u","n","s","u","p","p","o","r","t","e","d"," ","a","u","d","i","o"," ","t","y","p","e">>
M_no_input ==
    <<"E","i","t","h","e","r"," ","'","f","i","l","e","'"," ","o","r"," ","'","a","u","d","i","o","_","u","r","l","'"," ","p","a","r","a","m","e","t","e","r"," ","i","s"," ","r","e","q","u","i","r","e","d">>
M_internal ==
    <<"I","n","t","e","r","n","a","l"," ","s","e","r","v","e","r"," ","e","r","r","o","r">>
P_invalid_model ==
    <<"I","n","v","a","l","i","d"," ","m","o","d","e","l"," ","'">>
Q_invalid_model ==
    <<"'","."," ","V","a","l","i","d"," ","A","s","s","e","m","b","l","y","A","I"," ","s","p","e","e","c","h"," ","m","o","d","e","l","s"," ","a","r","e",":"," ","b","e","s","t",","," ","s","l","a","m","-","1",","," ","u","n","i","v","e","r","s","a","l">>
P_status_failed ==
    <<"F","a","i","l","e","d"," ","t","o"," ","g","e","t"," ","t","r","a","n","s","c","r","i","p","t","i","o","n"," ","s","t","a","t","u","s",":"," ">>
P_failed ==
    <<"T","r","a","n","s","c","r","i","p","t","i","o","n"," ","f","a","i","l","e","d",":"," ">>
E_unknown ==
    <<"U","n","k","n","o","w","n"," ","e","r","r","o","r"," ","o","c","c","u","r","r","e","d">>
E_wait_timeout ==
    <<"T","r","a","n","s","c","r","i","p","t","i","o","n"," ","t","i","m","e","o","u","t"," ","a","f","t","e","r"," ","3","0","0"," ","s","e","c","o","n","d","s">>
E_bad_audio ==
    <<"b","a","d"," ","a","u","d","i","o">>
E_upstream_timeout ==
    <<"U","p","s","t","r","e","a","m"," ","T","i","m","e","o","u","t">>
E_json ==
    <<"E","x","p","e","c","t","i","n","g"," ","v","a","l","u","e">>
E_reason ==
    <<"5","0","2"," ","S","e","r","v","e","r"," ","E","r","r","o","r",":"," ","T","r","a","n","s","c","r","i","p","t","i","o","n"," ","f","a","i","l","e","d",":"," ","o","v","e","r","l","o","a","d","e","d">>
F_TimeOut ==
    <<"R","e","a","d"," ","T","i","m","e","O","u","t">>
F_Invalid ==
    <<"I","n","v","a","l","i","d"," ","a","u","d","i","o">>
F_BadRequest ==
    <<"4","0","0"," ","B","a","d"," ","R","e","q","u","e","s","t">>
F_Unauthorized ==
    <<"4","0","1"," ","U","n","a","u","t","h","o","r","i","z","e","d">>
F_NotFound ==
    <<"4","0","4"," ","N","O","T"," ","F","O","U","N","D">>
F_sep ==
    <<":"," ">>
T_hello ==
    <<"H","e","l","l","o"," ","t","h","e","r","e">>
T_hi ==
    <<"H","i">>
T_there ==
    <<"t","h","e","r","e">>
M_BEST ==
    <<"B","E","S","T">>
M_Universal ==
    <<"U","n","i","v","e","r","s","a","l">>
U_txt ==
    <<"h","t","t","p","s",":","/","/","h","/","n","o","t","e","s",".","t","x","t">>
U_stream ==
    <<"h","t","t","p",":","/","/","h","/","A","u","d","i","o","/","7">>
U_HTTP ==
    <<"H","T","T","P","S",":","/","/","h","/","a",".","w","a","v">>
ID_job ==
    <<"j","o","b","-","1">>
P_submit_failed ==
    <<"F","a","i","l","e","d"," ","t","o"," ","s","u","b","m","i","t"," ","t","r","a","n","s","c","r","i","p","t","i","o","n"," ","j","o","b",":"," ">>
E_no_id ==
    <<"N","o"," ","t","r","a","n","s","c","r","i","p","t"," ","I","D"," ","r","e","t","u","r","n","e","d"," ","f","r","o","m"," ","A","s","s","e","m","b","l","y","A","I">>
E_http500 ==
    <<"5","0","0"," ","S","e","r","v","e","r"," ","E","r","r","o","r",":"," ","I","n","t","e","r","n","a","l"," ","S","e","r","v","e","r"," ","E","r","r","o","r">>
L_en ==
    <<"e","n">>
W_fire ==
    <<"f","i","r","e">>
W_smoke ==
    <<"s","m","o","k","e">>
W_Canada ==
    <<"C","a","n","a","d","a">>

----------------------------------------------------------------------------
(* app/utils.py *)

\* language_mapping maps each code it lists to itself, and .get falls back
\* to the lower-cased tag: the result is the lower-cased tag either way.
map_language_code(openai_language) ==
    IF ~Truthy(openai_language) THEN NoText ELSE Lower(openai_language)

valid_models == {S_best, S_slam1, S_universal}

\* The mapper with the allow-list check dropped: any name is passed on
\* lower-cased.
map_model_unchecked(openai_model) ==
    IF ~Truthy(openai_model) THEN NoText ELSE Lower(openai_model)

map_openai_model_to_speech_model(openai_model) ==
    IF ~Truthy(openai_model) THEN NoText
    ELSE IF Lower(openai_model) \in valid_models THEN Lower(openai_model)
    ELSE NoText

\* The characters str.split() separates on
Whitespace == {" ", "\t", "\n", "\r", "\f"}

\* str.replace(",", " ")
CommasToSpaces(s) == [i \in 1..Len(s) |-> IF s[i] = "," THEN " " ELSE s[i]]

\* str.split(): the maximal runs of non-whitespace characters, in order
RECURSIVE SplitFrom(_, _, _)
SplitFrom(s, i, word) ==
    IF i > Len(s)
    THEN IF word = << >> THEN << >> ELSE <<word>>
    ELSE IF s[i] \in Whitespace
    THEN IF word = << >> THEN SplitFrom(s, i + 1, << >>)
         ELSE <<word>> \o SplitFrom(s, i + 1, << >>)
    ELSE SplitFrom(s, i + 1, Append(word, s[i]))

Split(s) == SplitFrom(s, 1, << >>)

\* An Optional value that is not a string: None, or the value
Nothing == << >>

Some(x) == <<x>>

\* A parser that returns the list it found even when it is empty
parse_word_boost_keeps_empty(prompt) ==
    IF ~Truthy(prompt) THEN Nothing
    ELSE Some(Split(CommasToSpaces(prompt)))

\* The list of boost words, or None
parse_word_boost(prompt) ==
    IF ~Truthy(prompt) THEN Nothing
    ELSE LET words == Split(CommasToSpaces(prompt))
         IN  IF Len(words) > 0 THEN Some(words) ELSE Nothing

audio_extensions == <<S_wav, S_mp3, S_m4a, S_flac, S_ogg, S_aac, S_wma>>

\* A URL check that lets every URL through
validate_audio_url_accepts_all(url) == TRUE

\* A validation that looks at the scheme only
validate_audio_url_scheme_only(url) ==
    IF ~Truthy(url) THEN FALSE
    ELSE StartsWith(url, S_http) \/ StartsWith(url, S_https)

validate_audio_url(url) ==
    IF ~Truthy(url) THEN FALSE
    ELSE IF ~(StartsWith(url, S_http) \/ StartsWith(url, S_https)) THEN FALSE
    ELSE \/ \E k \in 1..Len(audio_extensions) :
                Contains(Lower(url), audio_extensions[k])
         \/ Contains(Lower(url), S_audio)

\* dict.get(key, default)
Get(d, key, default) == IF key \in DOMAIN d THEN d[key] ELSE default

RECURSIVE GCD(_, _)
GCD(a, b) == IF b = 0 THEN a ELSE GCD(b, a % b)

\* A number with a fractional part, as the fraction in lowest terms
Float(n) == [num |-> n, den |-> 1]

\* "x / 1000.0" on an integer x
TrueDiv(x, d) ==
    LET g == GCD(x, d) IN [num |-> x \div g, den |-> d \div g]

\* A duration that is the provider's number divided by 1000
response_duration_seconds(assemblyai_response) ==
    IF "audio_duration" \in DOMAIN assemblyai_response
    THEN Some(TrueDiv(assemblyai_response.audio_duration.num,
                      assemblyai_response.audio_duration.den * 1000))
    ELSE Nothing

\* assemblyai_response.get("audio_duration"): the provider's number, or None
response_duration(assemblyai_response) ==
    IF "audio_duration" \in DOMAIN assemblyai_response
    THEN Some(assemblyai_response.audio_duration)
    ELSE Nothing

\* A test that asks only whether the key is there
HasItems_key_present(assemblyai_response, key) ==
    key \in DOMAIN assemblyai_response

\* "if assemblyai_response.get(key)" on a key that holds a list
HasItems(assemblyai_response, key) ==
    /\ key \in DOMAIN assemblyai_response
    /\ Len(assemblyai_response[key]) > 0

\* A choice of list that prefers the words
segment_source_words_first(assemblyai_response) ==
    IF HasItems(assemblyai_response, "words") THEN "words"
    ELSE IF HasItems(assemblyai_response, "utterances") THEN "utterances"
    ELSE "none"

\* Which branch of "if ...get('utterances'): / elif ...get('words'):" is taken
segment_source(assemblyai_response) ==
    IF HasItems(assemblyai_response, "utterances") THEN "utterances"
    ELSE IF HasItems(assemblyai_response, "words") THEN "words"
    ELSE "none"

\* An utterance segment whose seek offset is counted in whole seconds
utterance_segment_seek_seconds(utterance, id) ==
    [id                |-> id,
     seek              |-> Get(utterance, "start", 0) \div 1000,
     start             |-> TrueDiv(Get(utterance, "start", 0), 1000),
     end               |-> TrueDiv(Get(utterance, "end", 0), 1000),
     text              |-> Get(utterance, "text", NoText),
     speaker           |-> Get(utterance, "speaker", "Unknown"),
     tokens            |-> << >>,
     temperature       |-> Float(0),
     avg_logprob       |-> Float(0),
     compression_ratio |-> Float(1),
     no_speech_prob    |-> Float(0)]

\* The segment appended for an utterance when the list holds id segments
utterance_segment(utterance, id) ==
    [id                |-> id,
     seek              |-> Get(utterance, "start", 0),
     start             |-> TrueDiv(Get(utterance, "start", 0), 1000),
     end               |-> TrueDiv(Get(utterance, "end", 0), 1000),
     text              |-> Get(utterance, "text", NoText),
     speaker           |-> Get(utterance, "speaker", "Unknown"),
     tokens            |-> << >>,
     temperature       |-> Float(0),
     avg_logprob       |-> Float(0),
     compression_ratio |-> Float(1),
     no_speech_prob    |-> Float(0)]

\* The segment appended for a word when the list holds id segments
word_segment(word, id) ==
    [id                |-> id,
     seek              |-> Get(word, "start", 0),
     start             |-> TrueDiv(Get(word, "start", 0), 1000),
     end               |-> TrueDiv(Get(word, "end", 0), 1000),
     text              |-> Get(word, "text", NoText),
     tokens            |-> << >>,
     temperature       |-> Float(0),
     avg_logprob       |-> Float(0),
     compression_ratio |-> Float(1),
     no_speech_prob    |-> Float(0)]

\* The response built for every format but text
structured_response(assemblyai_response) ==
    [text     |-> Get(assemblyai_response, "text", NoText),
     task     |-> "transcribe",
     language |-> Get(assemblyai_response, "language_code", NoText),
     duration |-> response_duration(assemblyai_response)]
    @@ (IF segment_source(assemblyai_response) = "utterances"
        THEN [segments |->
                 [k \in 1..Len(assemblyai_response.utterances) |->
                     utterance_segment(assemblyai_response.utterances[k], k - 1)]]
        ELSE IF segment_source(assemblyai_response) = "words"
        THEN [segments |->
                 [k \in 1..Len(assemblyai_response.words) |->
                     word_segment(assemblyai_response.words[k], k - 1)]]
        ELSE << >>)

\* A conversion whose text format is put together from the utterances
convert_text_from_utterances(assemblyai_response, response_format) ==
    IF response_format = "text"
    THEN IF HasItems(assemblyai_response, "utterances")
         THEN Get(assemblyai_response.utterances[1], "text", NoText)
         ELSE Get(assemblyai_response, "text", NoText)
    ELSE structured_response(assemblyai_response)

convert_assemblyai_to_openai_response(assemblyai_response, response_format) ==
    IF response_format = "text"
    THEN Get(assemblyai_response, "text", NoText)
    ELSE structured_response(assemblyai_response)

\* None (JSON null) in a field that is read as a number
JsonNull == -1

\* "utterance.get('start', 0) / 1000.0" and the same for end: TypeError
\* when the value is None
segment_raises(item) ==
    \/ Get(item, "start", 0) = JsonNull
    \/ Get(item, "end", 0) = JsonNull

\* Whether the conversion raises instead of returning: the text format
\* reads the text only; the others build a segment from every item of the
\* list they take.
convert_raises(assemblyai_response, response_format) ==
    /\ response_format # "text"
    /\ segment_source(assemblyai_response) # "none"
    /\ \E k \in 1..Len(assemblyai_response[segment_source(assemblyai_response)]) :
          segment_raises(assemblyai_response[segment_source(assemblyai_response)][k])

NoCode == ""

format_openai_error(message, error_type, code) ==
    [error |-> IF code # NoCode
               THEN [message |-> message, type |-> error_type, code |-> code]
               ELSE [message |-> message, type |-> error_type]]

\* fastapi.HTTPException(status_code, detail) as the response it becomes
HTTPException(status_code, detail) ==
    [status |-> status_code, detail |-> detail]

----------------------------------------------------------------------------
(* app/assemblyai_client.py: what the provider answers to an upload *)

\* A constructor that takes the key for granted
client_init_never_raises(api_key) == FALSE

\* AssemblyAIClient(): "if not self.api_key: raise ValueError"
client_init_raises(api_key) == ~api_key

\* requests.post on /upload: a transport failure or non-2xx answer (a
\* RequestException with some text), or a 2xx answer whose JSON holds the
\* hosted URL, or holds none.
UploadAnswers ==
    { [kind |-> "ok",   upload_url |-> U_hosted, text |-> NoText],
      [kind |-> "ok",   upload_url |-> NoText,   text |-> NoText],
      [kind |-> "fail", upload_url |-> NoText,   text |-> E_conn],
      [kind |-> "fail", upload_url |-> NoText,   text |-> E_http500] }

\* upload_file without the test for a missing hosted URL
upload_file_unchecked(answer) ==
    IF answer.kind = "fail"
    THEN [raised |-> TRUE, value |-> NoText, msg |-> P_upload_failed \o answer.text]
    ELSE [raised |-> FALSE, value |-> answer.upload_url, msg |-> NoText]

\* upload_file: the hosted URL, or the exception it raises
upload_file(answer) ==
    IF answer.kind = "fail"
    THEN [raised |-> TRUE, value |-> NoText, msg |-> P_upload_failed \o answer.text]
    ELSE IF ~Truthy(answer.upload_url)
    THEN [raised |-> TRUE, value |-> NoText, msg |-> E_no_upload_url]
    ELSE [raised |-> FALSE, value |-> answer.upload_url, msg |-> NoText]

\* The fields of the pydantic model AssemblyAITranscriptionRequest
AssemblyAITranscriptionRequest ==
    {"audio_url", "language_code", "word_boost", "speech_model",
     "punctuate", "format_text"}

\* Reading an attribute of the request object: a field the object carries
\* has a value, any other name raises AttributeError.
HasAttr(request, attr) == attr \in DOMAIN request

\* Job parameters that take their URL from a field the handler never sets
submit_payload_no_url(request) ==
    [audio_url   |-> Get(request, "upload_url", NoText),
     punctuate   |-> request.punctuate,
     format_text |-> request.format_text]

\* The job parameters submit_transcription builds before it posts them
submit_payload(request) ==
    [audio_url   |-> request.audio_url,
     punctuate   |-> request.punctuate,
     format_text |-> request.format_text]
    @@ (IF Truthy(request.language_code)
        THEN [language_code |-> request.language_code]
        ELSE << >>)
    @@ (IF request.word_boost # Nothing /\ Len(request.word_boost[1]) > 0
        THEN [word_boost |-> request.word_boost[1]]
        ELSE << >>)
    @@ (IF Truthy(request.speech_model)
        THEN [speech_model |-> request.speech_model]
        ELSE << >>)

----------------------------------------------------------------------------
(* app/main.py: classification of a failure raised by client.transcribe *)

\* The classification with the second test tried before the first
ClassifyError_invalid_first(error_msg) ==
    IF \/ Contains(Lower(error_msg), S_invalid)
       \/ Contains(Lower(error_msg), S_bad_request)
    THEN [status |-> 400, type |-> "invalid_request_error", code |-> "invalid_audio"]
    ELSE IF Contains(Lower(error_msg), S_timeout)
    THEN [status |-> 408, type |-> "timeout_error", code |-> "transcription_timeout"]
    ELSE IF Contains(Lower(error_msg), S_unauthorized)
    THEN [status |-> 401, type |-> "authentication_error", code |-> "invalid_api_key"]
    ELSE IF Contains(Lower(error_msg), S_not_found)
    THEN [status |-> 404, type |-> "not_found_error", code |-> "audio_not_found"]
    ELSE [status |-> 500, type |-> "api_error", code |-> "transcription_failed"]

ClassifyError(error_msg) ==
    LET lowered == Lower(error_msg)
    IN  IF Contains(lowered, S_timeout)
        THEN [status |-> 408, type |-> "timeout_error", code |-> "transcription_timeout"]
        ELSE IF \/ Contains(lowered, S_invalid)
                \/ Contains(lowered, S_bad_request)
        THEN [status |-> 400, type |-> "invalid_request_error", code |-> "invalid_audio"]
        ELSE IF Contains(lowered, S_unauthorized)
        THEN [status |-> 401, type |-> "authentication_error", code |-> "invalid_api_key"]
        ELSE IF Contains(lowered, S_not_found)
        THEN [status |-> 404, type |-> "not_found_error", code |-> "audio_not_found"]
        ELSE [status |-> 500, type |-> "api_error", code |-> "transcription_failed"]

TranscriptionError(error_msg) ==
    LET c == ClassifyError(error_msg)
    IN  HTTPException(c.status, format_openai_error(error_msg, c.type, c.code))

----------------------------------------------------------------------------
(* State *)

VARIABLES
    apiKey,     \* whether ASSEMBLYAI_API_KEY is set in the process environment
    provider,   \* how the provider would treat a submitted job
    req,        \* per request: the parsed form of the request
    pc,         \* per request: where its handler stands
    loop,       \* the request whose handler occupies the event loop, or None
    frame,      \* per request: the handler's local variables
    calls,      \* per request: outbound calls made so far
    resp,       \* per request: the response sent, or NoResp
    wpc,        \* wait_for_completion: where the call stands
    start_time, \* wait_for_completion: time.time() at entry
    now,        \* the wall clock, in ticks of poll_interval
    polls,      \* wait_for_completion: the answers to the polls made so far
    wres,       \* wait_for_completion: what it returned or raised
    tpc,        \* client.transcribe: where the call stands
    treq,       \* client.transcribe: the request object it was given
    tposts,     \* client.transcribe: jobs posted to the provider so far
    tpayload,   \* client.transcribe: the job parameters posted
    tsubmit,    \* client.transcribe: the provider's answer to the posted job
    tres,       \* client.transcribe: what it returned or raised
    pin,        \* a function of app/utils.py or the classification, and its argument
    pout        \* what that function returned

vars == <<apiKey, provider, req, pc, loop, frame, calls, resp,
          wpc, start_time, now, polls, wres,
          tpc, treq, tposts, tpayload, tsubmit, tres, pin, pout>>

appVars    == <<apiKey, provider, req, pc, loop, frame, calls, resp>>
waitVars   == <<wpc, start_time, now, polls, wres>>
clientVars == <<tpc, treq, tposts, tpayload, tsubmit, tres>>
pureVars   == <<pin, pout>>

Reqs == {"A", "B"}

None == "None"

NoReq == [kind |-> "none"]

NoResp == [status |-> 0]

NoRequestObject == [audio_url |-> NoText]

NoPayload == [audio_url |-> NoText]

NoUploadAnswer == [kind |-> "none", upload_url |-> NoText, text |-> NoText]

NoFrame ==
    [final_audio_url |-> NoText, assemblyai_request |-> NoRequestObject,
     client |-> FALSE, payload |-> NoPayload, upload_answer |-> NoUploadAnswer]

NoCalls == [upload |-> 0, submit |-> 0, poll |-> 0]

NoSubmitAnswer == [kind |-> "none"]

NoInput == [fn |-> "none"]

NoOutput == [done |-> FALSE]

\* model: str = Form("whisper-1"): an omitted field takes the default
FormModel(supplied, value) == IF supplied THEN value ELSE S_whisper1

ModelNames == {M_Slam1, M_base}

\* language and prompt, as sent together
LanguageAndPrompt == {<<NoText, NoText>>, <<L_EN, PR_fire>>}

AudioUrls == {NoText, U_mp3, U_ftp}

HealthRequest == [kind |-> "health"]

TranscriptionRequests ==
    { [kind |-> "transcription", file |-> f, audio_url |-> u,
       model_supplied |-> s, model |-> FormModel(s, m),
       language |-> lp[1], prompt |-> lp[2], response_format |-> fmt] :
        f \in BOOLEAN, u \in AudioUrls, s \in BOOLEAN, m \in ModelNames,
        lp \in LanguageAndPrompt, fmt \in {"json", "text"} }

\* What the provider would do with a job, were one submitted: accept it and
\* report it completed, or accept it and report processing for ever.  No
\* action reads it: submit_transcription raises before the job is posted
\* (see TranscribeRaise), so the provider is never asked.  It is the
\* environment that the properties about accepted jobs speak of.
ProviderBehaviours == {"completes", "processing"}

----------------------------------------------------------------------------
(* app/main.py: the application *)

Init ==
    /\ apiKey \in BOOLEAN
    /\ provider \in ProviderBehaviours
    /\ req = [r \in Reqs |-> NoReq]
    /\ pc = [r \in Reqs |-> "idle"]
    /\ loop = None
    /\ frame = [r \in Reqs |-> NoFrame]
    /\ calls = [r \in Reqs |-> NoCalls]
    /\ resp = [r \in Reqs |-> NoResp]
    /\ wpc = "off"
    /\ start_time = 0
    /\ now = 0
    /\ polls = << >>
    /\ wres = [kind |-> "none"]
    /\ tpc = "off"
    /\ treq = NoRequestObject
    /\ tposts = 0
    /\ tpayload = NoPayload
    /\ tsubmit = NoSubmitAnswer
    /\ tres = [kind |-> "none"]
    /\ pin = NoInput
    /\ pout = NoOutput

\* The handler of r ends with this response and gives the event loop back.
Respond(r, response) ==
    /\ resp' = [resp EXCEPT ![r] = response]
    /\ pc' = [pc EXCEPT ![r] = "done"]
    /\ loop' = None

\* A client sends a request; the framework parses its form.
Arrive(r) ==
    /\ pc[r] = "idle"
    /\ \E q \in TranscriptionRequests \cup {HealthRequest} :
          req' = [req EXCEPT ![r] = q]
    /\ pc' = [pc EXCEPT ![r] = "pending"]
    /\ UNCHANGED <<apiKey, provider, loop, frame, calls, resp, waitVars, clientVars, pureVars>>

\* A health probe that asks the provider before it answers.
health_check_asks_provider(r) ==
    /\ pc[r] = "pending"
    /\ req[r].kind = "health"
    /\ loop = None
    /\ calls' = [calls EXCEPT ![r].poll = 1]
    /\ Respond(r, [status |-> 200, body |-> [status |-> "healthy", timestamp |-> now]])
    /\ UNCHANGED <<apiKey, provider, req, frame, waitVars, clientVars, pureVars>>

\* GET /health
health_check(r) ==
    /\ pc[r] = "pending"
    /\ req[r].kind = "health"
    /\ loop = None
    /\ Respond(r, [status |-> 200, body |-> [status |-> "healthy", timestamp |-> now]])
    /\ UNCHANGED <<apiKey, provider, req, frame, calls, waitVars, clientVars, pureVars>>

\* The branch taken when the final "else" is missing and the URL branch
\* takes every request without a file.
AudioSource_no_else(q) ==
    IF q.file THEN "file" ELSE "url"

\* Which branch of "if file: / elif audio_url: / else:" a request takes
AudioSource(q) ==
    IF q.file THEN "file" ELSE IF Truthy(q.audio_url) THEN "url" ELSE "none"

\* POST /v1/audio/transcriptions with a file, up to "await file.read()":
\* the client is constructed, which needs the API key.
BeginFile(r) ==
    /\ pc[r] = "pending"
    /\ req[r].kind = "transcription"
    /\ loop = None
    /\ AudioSource(req[r]) = "file"
    /\ IF client_init_raises(apiKey)
       THEN /\ Respond(r, HTTPException(500,
                          format_openai_error(M_no_key, "api_error", "missing_api_key")))
            /\ UNCHANGED frame
       ELSE /\ frame' = [frame EXCEPT ![r].client = TRUE]
            /\ pc' = [pc EXCEPT ![r] = "reading"]
            /\ UNCHANGED <<loop, resp>>
    /\ UNCHANGED <<apiKey, provider, req, calls, waitVars, clientVars, pureVars>>

\* file.read() has returned; client.upload_file posts the bytes.  The post
\* is a blocking call made on the event loop.
UploadCall(r) ==
    /\ pc[r] = "reading"
    /\ loop = None
    /\ loop' = r
    /\ calls' = [calls EXCEPT ![r].upload = @ + 1]
    /\ pc' = [pc EXCEPT ![r] = "uploading"]
    /\ UNCHANGED <<apiKey, provider, req, frame, resp, waitVars, clientVars, pureVars>>

\* The provider answers the upload.
UploadReturn(r) ==
    /\ pc[r] = "uploading"
    /\ \E answer \in UploadAnswers :
          LET res == upload_file(answer)
          IN  IF res.raised
              THEN /\ Respond(r, HTTPException(400,
                         format_openai_error(P_upload_failed \o res.msg,
                                             "invalid_request_error",
                                             "file_upload_failed")))
                   /\ frame' = [frame EXCEPT ![r].upload_answer = answer]
              ELSE /\ frame' = [frame EXCEPT ![r].final_audio_url = res.value,
                                              ![r].upload_answer = answer]
                   /\ pc' = [pc EXCEPT ![r] = "map"]
                   /\ UNCHANGED <<loop, resp>>
    /\ UNCHANGED <<apiKey, provider, req, calls, waitVars, clientVars, pureVars>>

\* POST /v1/audio/transcriptions with a URL and no file
BeginUrl(r) ==
    /\ pc[r] = "pending"
    /\ req[r].kind = "transcription"
    /\ loop = None
    /\ AudioSource(req[r]) = "url"
    /\ IF ~validate_audio_url(req[r].audio_url)
       THEN /\ Respond(r, HTTPException(400,
                          format_openai_error(M_bad_url, "invalid_request_error",
                                              "invalid_audio_url")))
            /\ UNCHANGED frame
       ELSE /\ frame' = [frame EXCEPT ![r].final_audio_url = req[r].audio_url]
            /\ pc' = [pc EXCEPT ![r] = "map"]
            /\ loop' = r
            /\ UNCHANGED resp
    /\ UNCHANGED <<apiKey, provider, req, calls, waitVars, clientVars, pureVars>>

\* POST /v1/audio/transcriptions with neither
BeginNone(r) ==
    /\ pc[r] = "pending"
    /\ req[r].kind = "transcription"
    /\ loop = None
    /\ AudioSource(req[r]) = "none"
    /\ Respond(r, HTTPException(400,
                  format_openai_error(M_no_input, "invalid_request_error",
                                      "missing_audio_input")))
    /\ UNCHANGED <<apiKey, provider, req, frame, calls, waitVars, clientVars, pureVars>>

\* A handler that lets every model name through
ModelRejected_never(model, speech_model) == FALSE

\* "if model and speech_model is None"
ModelRejected(model, speech_model) ==
    Truthy(model) /\ speech_model = NoText

\* Parameter mapping, model validation, and the provider request object
MapParams(r) ==
    /\ pc[r] = "map"
    /\ loop = r
    /\ LET speech_model == map_openai_model_to_speech_model(req[r].model)
       IN  IF ModelRejected(req[r].model, speech_model)
           THEN /\ Respond(r, HTTPException(400,
                      format_openai_error(
                          P_invalid_model \o req[r].model \o Q_invalid_model,
                          "invalid_request_error", "invalid_model")))
                /\ UNCHANGED frame
           ELSE /\ frame' = [frame EXCEPT ![r].assemblyai_request =
                               [audio_url     |-> frame[r].final_audio_url,
                                language_code |-> map_language_code(req[r].language),
                                speech_model  |-> speech_model,
                                word_boost    |-> parse_word_boost(req[r].prompt),
                                punctuate     |-> TRUE,
                                format_text   |-> TRUE]]
                /\ pc' = [pc EXCEPT ![r] = "client"]
                /\ UNCHANGED <<loop, resp>>
    /\ UNCHANGED <<apiKey, provider, req, calls, waitVars, clientVars, pureVars>>

\* "if not file: client = AssemblyAIClient()"
InitClient(r) ==
    /\ pc[r] = "client"
    /\ loop = r
    /\ IF ~req[r].file /\ client_init_raises(apiKey)
       THEN /\ Respond(r, HTTPException(500,
                          format_openai_error(M_no_key, "api_error", "missing_api_key")))
            /\ UNCHANGED frame
       ELSE /\ frame' = [frame EXCEPT ![r].client = TRUE]
            /\ pc' = [pc EXCEPT ![r] = "transcribe"]
            /\ UNCHANGED <<loop, resp>>
    /\ UNCHANGED <<apiKey, provider, req, calls, waitVars, clientVars, pureVars>>

\* client.transcribe(assemblyai_request): submit_transcription builds the
\* payload from the request object.
TranscribeCall(r) ==
    /\ pc[r] = "transcribe"
    /\ loop = r
    /\ frame' = [frame EXCEPT ![r].payload =
                    submit_payload(frame[r].assemblyai_request)]
    /\ pc' = [pc EXCEPT ![r] = "submitting"]
    /\ UNCHANGED <<apiKey, provider, req, loop, calls, resp, waitVars, clientVars, pureVars>>

\* submit_transcription reads request.speaker_labels, which the request
\* model does not declare: AttributeError, before the job is posted.  It
\* passes through transcribe's handler and is classified by its text.
TranscribeRaise(r) ==
    /\ pc[r] = "submitting"
    /\ loop = r
    /\ ~HasAttr(frame[r].assemblyai_request, "speaker_labels")
    /\ Respond(r, TranscriptionError(E_attr))
    /\ UNCHANGED <<apiKey, provider, req, frame, calls, waitVars, clientVars, pureVars>>

create_transcription(r) ==
    \/ BeginFile(r)
    \/ UploadCall(r)
    \/ UploadReturn(r)
    \/ BeginUrl(r)
    \/ BeginNone(r)
    \/ MapParams(r)
    \/ InitClient(r)
    \/ TranscribeCall(r)
    \/ TranscribeRaise(r)

Next ==
    \E r \in Reqs :
        \/ Arrive(r)
        \/ health_check(r)
        \/ create_transcription(r)

Spec == Init /\ [][Next]_vars

----------------------------------------------------------------------------
(* app/main.py: one request at a time, over a wider range of forms *)

ModelNamesOne == {S_best, M_BEST, M_Slam1, M_Universal, M_base}

AudioUrlsOne == {NoText, U_mp3, U_ftp, U_txt, U_stream, U_HTTP}

TranscriptionRequestsOne ==
    { [kind |-> "transcription", file |-> f, audio_url |-> u,
       model_supplied |-> s, model |-> FormModel(s, m),
       language |-> lp[1], prompt |-> lp[2], response_format |-> fmt] :
        f \in BOOLEAN, u \in AudioUrlsOne, s \in BOOLEAN, m \in ModelNamesOne,
        lp \in LanguageAndPrompt, fmt \in {"json", "text"} }

\* The one request made
One == "A"

ArriveOne ==
    /\ pc[One] = "idle"
    /\ \E q \in TranscriptionRequestsOne \cup {HealthRequest} :
          req' = [req EXCEPT ![One] = q]
    /\ pc' = [pc EXCEPT ![One] = "pending"]
    /\ UNCHANGED <<apiKey, provider, loop, frame, calls, resp, waitVars, clientVars, pureVars>>

NextOne ==
    \/ ArriveOne
    \/ health_check(One)
    \/ create_transcription(One)

SpecOne == Init /\ [][NextOne]_vars

----------------------------------------------------------------------------
(* app/assemblyai_client.py: wait_for_completion *)

timeout_seconds == 300

\* poll_interval is 0.1 s; the clock counts ticks of that length
TicksPerSecond == 10

poll_interval == 1

\* Polls a run may make
MaxPolls == 4

\* Ticks a slow status request may take
LongPoll == 1500

PollDurations == {0, LongPoll}

\* time.time() when wait_for_completion is entered
StartTimes == {0, 7}

\* The utterance of a completed job: timed, or with null for its start
ReportedUtterances ==
    { [start |-> 0, end |-> 1500, text |-> T_hello, speaker |-> "A"],
      [start |-> JsonNull, end |-> 1500, text |-> T_hello, speaker |-> "A"] }

\* What one GET /transcript/{id} yields: a JSON object with a status (and,
\* for status error, possibly an error text), a RequestException with some
\* text (transport failure or non-2xx answer), or a body that is no JSON.
PollAnswers ==
    { [kind |-> "json", status |-> s, error |-> NoText] :
        s \in {"queued", "processing", "completed", "error", "paused", "absent"} }
    \cup
    { [kind |-> "json", status |-> "error", error |-> e] :
        e \in {E_bad_audio, E_upstream_timeout} }
    \cup
    { [kind |-> "fail", status |-> "", error |-> t] : t \in {E_conn, E_reason} }
    \cup
    { [kind |-> "nojson", status |-> "", error |-> E_json] }
    \cup
    { [kind |-> "json", status |-> "completed", error |-> NoText,
       utterances |-> <<u>>] : u \in ReportedUtterances }

\* get_transcription_status: the JSON object, or the exception raised
get_transcription_status(answer) ==
    IF answer.kind = "json" THEN [raised |-> FALSE, msg |-> NoText]
    ELSE IF answer.kind = "fail"
    THEN [raised |-> TRUE, msg |-> P_status_failed \o answer.error]
    ELSE [raised |-> TRUE, msg |-> answer.error]

\* result.get("error", "Unknown error occurred")
ProviderError(answer) ==
    IF Truthy(answer.error) THEN answer.error ELSE E_unknown

\* "if 'Transcription failed:' in str(e): raise"
Reraised(msg) == Contains(msg, S_transcription_failed)

\* A loop body that treats a provider-reported error as one more failure to
\* retry.
poll_step_retry_error(answer) ==
    LET got == get_transcription_status(answer)
    IN  IF ~got.raised /\ answer.status = "completed"
        THEN [kind |-> "returned", msg |-> NoText]
        ELSE [kind |-> "sleep", msg |-> NoText]

\* A loop body that returns as soon as the job is past the queue.
poll_step_early(answer) ==
    LET got == get_transcription_status(answer)
    IN  IF got.raised
        THEN IF Reraised(got.msg) THEN [kind |-> "raised", msg |-> got.msg]
             ELSE [kind |-> "sleep", msg |-> NoText]
        ELSE IF answer.status \in {"completed", "processing"}
        THEN [kind |-> "returned", msg |-> NoText]
        ELSE IF answer.status = "error"
        THEN [kind |-> "raised", msg |-> P_failed \o ProviderError(answer)]
        ELSE [kind |-> "sleep", msg |-> NoText]

\* A loop body that gives up on a status it does not know.
poll_step_unknown_raises(answer) ==
    LET got == get_transcription_status(answer)
    IN  IF got.raised
        THEN IF Reraised(got.msg) THEN [kind |-> "raised", msg |-> got.msg]
             ELSE [kind |-> "sleep", msg |-> NoText]
        ELSE IF answer.status = "completed"
        THEN [kind |-> "returned", msg |-> NoText]
        ELSE IF answer.status = "error"
        THEN [kind |-> "raised", msg |-> P_failed \o ProviderError(answer)]
        ELSE IF answer.status \in {"queued", "processing"}
        THEN [kind |-> "sleep", msg |-> NoText]
        ELSE [kind |-> "raised", msg |-> P_failed \o E_unknown]

\* One pass of the loop body on the answer to its poll: return the result,
\* raise, or sleep and go round again.
poll_step(answer) ==
    LET got == get_transcription_status(answer)
    IN  IF got.raised
        THEN IF Reraised(got.msg) THEN [kind |-> "raised", msg |-> got.msg]
             ELSE [kind |-> "sleep", msg |-> NoText]
        ELSE IF answer.status = "completed"
        THEN [kind |-> "returned", msg |-> NoText]
        ELSE IF answer.status = "error"
        THEN IF Reraised(P_failed \o ProviderError(answer))
             THEN [kind |-> "raised", msg |-> P_failed \o ProviderError(answer)]
             ELSE [kind |-> "sleep", msg |-> NoText]
        ELSE [kind |-> "sleep", msg |-> NoText]

timeout_ticks == timeout_seconds * TicksPerSecond

\* "while time.time() - start_time < self.timeout_seconds"
WithinBudget(t, t0) == t - t0 < timeout_ticks

InitWait ==
    /\ apiKey = TRUE
    /\ provider = "completes"
    /\ req = [r \in Reqs |-> NoReq]
    /\ pc = [r \in Reqs |-> "idle"]
    /\ loop = None
    /\ frame = [r \in Reqs |-> NoFrame]
    /\ calls = [r \in Reqs |-> NoCalls]
    /\ resp = [r \in Reqs |-> NoResp]
    /\ wpc = "loop"
    /\ start_time \in StartTimes
    /\ now = start_time
    /\ polls = << >>
    /\ wres = [kind |-> "none"]
    /\ tpc = "off"
    /\ treq = NoRequestObject
    /\ tposts = 0
    /\ tpayload = NoPayload
    /\ tsubmit = NoSubmitAnswer
    /\ tres = [kind |-> "none"]
    /\ pin = NoInput
    /\ pout = NoOutput

\* The loop condition: go on to poll, or leave the loop and raise the
\* timeout.
LoopTest ==
    /\ wpc = "loop"
    /\ IF WithinBudget(now, start_time)
       THEN /\ wpc' = "poll"
            /\ UNCHANGED wres
       ELSE /\ wpc' = "done"
            /\ wres' = [kind |-> "raised", msg |-> E_wait_timeout]
    /\ UNCHANGED <<appVars, clientVars, pureVars, start_time, now, polls>>

\* One status request and the loop body's reaction to its answer.
Poll ==
    /\ wpc = "poll"
    /\ Len(polls) < MaxPolls
    /\ \E answer \in PollAnswers, d \in PollDurations :
          LET step == poll_step(answer)
          IN  /\ polls' = Append(polls, answer)
              /\ now' = now + d
              /\ IF step.kind = "sleep"
                 THEN /\ wpc' = "sleep"
                      /\ UNCHANGED wres
                 ELSE /\ wpc' = "done"
                      /\ wres' = [kind |-> step.kind, msg |-> step.msg,
                                  payload |-> answer]
    /\ UNCHANGED <<appVars, clientVars, pureVars, start_time>>

\* time.sleep(self.poll_interval)
Sleep ==
    /\ wpc = "sleep"
    /\ now' = now + poll_interval
    /\ wpc' = "loop"
    /\ UNCHANGED <<appVars, clientVars, pureVars, start_time, polls, wres>>

NextWait == LoopTest \/ Poll \/ Sleep

SpecWait == InitWait /\ [][NextWait]_vars

----------------------------------------------------------------------------
(* app/assemblyai_client.py: transcribe *)

\* A request object with the fields of AssemblyAITranscriptionRequest
RequestObject(audio_url, speech_model, word_boost) ==
    [audio_url     |-> audio_url,
     language_code |-> NoText,
     speech_model  |-> speech_model,
     word_boost    |-> word_boost,
     punctuate     |-> TRUE,
     format_text   |-> TRUE]

\* What transcribe may be called with: the object the endpoint builds,
\* which carries no speaker_labels, and an object of a type that carries
\* it, unset or set.
ClientRequests ==
    LET plain == {RequestObject(U_mp3, S_best, Nothing),
                  RequestObject(U_hosted, NoText, Some(<<W_fire>>))}
    IN  plain
        \cup { RequestObject(U_mp3, S_best, Nothing) @@ [speaker_labels |-> Nothing],
               RequestObject(U_hosted, NoText, Some(<<W_fire>>))
                   @@ [speaker_labels |-> Some(TRUE)] }

\* The job parameters as posted: submit_payload, and speaker_labels when set
posted_payload(request) ==
    submit_payload(request)
    @@ (IF request.speaker_labels # Nothing
        THEN [speaker_labels |-> request.speaker_labels[1]]
        ELSE << >>)

\* requests.post on /transcript: a transport failure or non-2xx answer, or
\* a 2xx answer whose JSON holds the job id, or holds none.
SubmitAnswers ==
    { [kind |-> "ok",   id |-> ID_job, text |-> NoText],
      [kind |-> "ok",   id |-> NoText, text |-> NoText],
      [kind |-> "fail", id |-> NoText, text |-> E_conn],
      [kind |-> "fail", id |-> NoText, text |-> E_http500] }

\* submit_transcription from the post on: the job id of the answer, or the
\* exception raised
submit_transcription(answer) ==
    IF answer.kind = "fail"
    THEN [raised |-> TRUE, id |-> NoText, msg |-> P_submit_failed \o answer.text]
    ELSE [raised |-> FALSE, id |-> answer.id, msg |-> NoText]

\* A workflow that goes on to wait for the job whatever id came back
transcribe_no_id_check(answer) ==
    LET submit_result == submit_transcription(answer)
    IN  IF submit_result.raised
        THEN [kind |-> "raised", msg |-> submit_result.msg]
        ELSE [kind |-> "wait", msg |-> NoText]

\* transcribe once the post is answered: raise, or go on to
\* wait_for_completion
transcribe(answer) ==
    LET submit_result == submit_transcription(answer)
    IN  IF submit_result.raised
        THEN [kind |-> "raised", msg |-> submit_result.msg]
        ELSE IF ~Truthy(submit_result.id)
        THEN [kind |-> "raised", msg |-> E_no_id]
        ELSE [kind |-> "wait", msg |-> NoText]

InitTranscribe ==
    /\ apiKey = TRUE
    /\ provider = "completes"
    /\ req = [r \in Reqs |-> NoReq]
    /\ pc = [r \in Reqs |-> "idle"]
    /\ loop = None
    /\ frame = [r \in Reqs |-> NoFrame]
    /\ calls = [r \in Reqs |-> NoCalls]
    /\ resp = [r \in Reqs |-> NoResp]
    /\ wpc = "off"
    /\ start_time = 0
    /\ now \in StartTimes
    /\ polls = << >>
    /\ wres = [kind |-> "none"]
    /\ tpc = "submit"
    /\ treq \in ClientRequests
    /\ tposts = 0
    /\ tpayload = NoPayload
    /\ tsubmit = NoSubmitAnswer
    /\ tres = [kind |-> "none"]
    /\ pin = NoInput
    /\ pout = NoOutput

\* submit_transcription up to the post: the parameters are built, which
\* reads request.speaker_labels, and posted.
SubmitCall ==
    /\ tpc = "submit"
    /\ IF ~HasAttr(treq, "speaker_labels")
       THEN /\ tpc' = "done"
            /\ tres' = [kind |-> "raised", msg |-> E_attr]
            /\ UNCHANGED <<tposts, tpayload>>
       ELSE /\ tpc' = "posting"
            /\ tposts' = tposts + 1
            /\ tpayload' = posted_payload(treq)
            /\ UNCHANGED tres
    /\ UNCHANGED <<appVars, waitVars, pureVars, treq, tsubmit>>

\* The provider answers the post.
SubmitReturn ==
    /\ tpc = "posting"
    /\ \E answer \in SubmitAnswers :
          LET step == transcribe(answer)
          IN  /\ tsubmit' = answer
              /\ IF step.kind = "raised"
                 THEN /\ tpc' = "done"
                      /\ tres' = [kind |-> "raised", msg |-> step.msg]
                      /\ UNCHANGED waitVars
                 ELSE /\ tpc' = "waiting"
                      /\ wpc' = "loop"
                      /\ start_time' = now
                      /\ UNCHANGED <<tres, now, polls, wres>>
    /\ UNCHANGED <<appVars, pureVars, treq, tposts, tpayload>>

\* wait_for_completion is over: transcribe returns its result, or its
\* exception goes through "except Exception: raise".
WaitReturn ==
    /\ tpc = "waiting"
    /\ wpc = "done"
    /\ tpc' = "done"
    /\ tres' = IF wres.kind = "returned"
               THEN [kind |-> "returned", msg |-> NoText, payload |-> wres.payload]
               ELSE [kind |-> "raised", msg |-> wres.msg]
    /\ UNCHANGED <<appVars, waitVars, pureVars, treq, tposts, tpayload, tsubmit>>

\* A handler that answers a provider-reported failure with what the last
\* poll held
transcription_response_partial(result, response_format, last_poll) ==
    IF result.kind = "raised" /\ ~Contains(result.msg, P_failed)
    THEN TranscriptionError(result.msg)
    ELSE [status |-> 200,
          body |-> convert_assemblyai_to_openai_response(last_poll, response_format)]

\* "except Exception" of the handler: the generic error, without a code
InternalServerError ==
    HTTPException(500, format_openai_error(M_internal, "api_error", NoCode))

\* A handler whose generic "except Exception" comes before its
\* "except HTTPException: raise"
transcription_response_rewraps(result, response_format, last_poll) ==
    IF result.kind = "raised" \/ convert_raises(result.payload, response_format)
    THEN InternalServerError
    ELSE [status |-> 200,
          body |-> convert_assemblyai_to_openai_response(result.payload,
                                                         response_format)]

\* The handler from client.transcribe on: an exception is answered with
\* its classified error, a result with its conversion or, when the
\* conversion raises, with the generic error.  last_poll is what
\* the last status request held.
transcription_response(result, response_format, last_poll) ==
    IF result.kind = "raised"
    THEN TranscriptionError(result.msg)
    ELSE IF convert_raises(result.payload, response_format)
    THEN InternalServerError
    ELSE [status |-> 200,
          body |-> convert_assemblyai_to_openai_response(result.payload,
                                                         response_format)]

\* client.transcribe is over and the handler answers the request.
Answer ==
    /\ tpc = "done"
    /\ resp[One] = NoResp
    /\ \E response_format \in {"json", "text"} :
          resp' = [resp EXCEPT ![One] =
                      transcription_response(tres, response_format,
                          IF polls = << >> THEN NoPayload ELSE polls[Len(polls)])]
    /\ UNCHANGED <<apiKey, provider, req, pc, loop, frame, calls,
                   waitVars, clientVars, pureVars>>

NextClient ==
    \/ SubmitCall
    \/ SubmitReturn
    \/ LoopTest
    \/ Poll
    \/ Sleep
    \/ WaitReturn
    \/ Answer

SpecClient == InitTranscribe /\ [][NextClient]_vars

----------------------------------------------------------------------------
(* The functions of app/utils.py and the classification of main.py, each
   applied to an argument *)

\* Sequences over S of length at most n
SeqsUpTo(S, n) == UNION { [1..k -> S] : k \in 0..n }

\* "".join(parts)
RECURSIVE Join(_)
Join(parts) ==
    IF parts = << >> THEN << >> ELSE Head(parts) \o Join(Tail(parts))

\* Fragments a failure text is made of
MaxFragments == 3

Fragments ==
    {F_TimeOut, F_Invalid, F_BadRequest, F_Unauthorized, F_NotFound, E_conn, F_sep}

\* str(e) of a failure raised by client.transcribe: the texts the client
\* raises itself, and texts it passes on (the provider's error text, the
\* text of a requests exception)
ErrorMessages ==
    {E_attr, E_wait_timeout, E_no_id, P_submit_failed \o E_conn,
     P_failed \o E_upstream_timeout}
    \cup { Join(parts) : parts \in SeqsUpTo(Fragments, MaxFragments) }

\* Items a list of the provider's payload may hold
MaxItems == 2

\* Timed speaker utterances, one of them without a speaker
Utterances ==
    { [start |-> 0, end |-> 1500, text |-> T_hello, speaker |-> "A"],
      [start |-> 1500, end |-> 2250, text |-> T_there] }

\* Timed words
Words ==
    { [start |-> 0, end |-> 500, text |-> T_hi, speaker |-> "A"],
      [start |-> 500, end |-> 1250, text |-> T_there] }

\* audio_duration as the provider may send it
Durations == {Float(125000), TrueDiv(25, 2)}

\* A key of the payload: missing, or holding one of the values
OptionalField(key, values) ==
    {<< >>} \cup { [k \in {key} |-> v] : v \in values }

\* The payload of a job the provider reports completed
CompletedJobs ==
    { [status |-> "completed"] @@ t @@ l @@ d @@ u @@ w :
        t \in OptionalField("text", {T_hello}),
        l \in OptionalField("language_code", {L_en}),
        d \in OptionalField("audio_duration", Durations),
        u \in OptionalField("utterances", SeqsUpTo(Utterances, MaxItems)),
        w \in OptionalField("words", SeqsUpTo(Words, MaxItems)) }

ConvertInputs ==
    { [fn |-> "convert", assemblyai_response |-> j, response_format |-> f] :
        j \in CompletedJobs, f \in {"json", "text", "verbose_json"} }

\* Characters a prompt is made of
MaxPromptLen == 4

PromptChars == {"a", "B", ",", " ", "\t"}

\* prompt: Optional[str] = Form(None)
Prompts == SeqsUpTo(PromptChars, MaxPromptLen) \cup {PR_fire}

ParseInputs == { [fn |-> "parse", prompt |-> p] : p \in Prompts }

ClassifyInputs == { [fn |-> "classify", error_msg |-> m] : m \in ErrorMessages }

PureInputs == ClassifyInputs \cup ConvertInputs \cup ParseInputs

InitPure ==
    /\ apiKey = TRUE
    /\ provider = "completes"
    /\ req = [r \in Reqs |-> NoReq]
    /\ pc = [r \in Reqs |-> "idle"]
    /\ loop = None
    /\ frame = [r \in Reqs |-> NoFrame]
    /\ calls = [r \in Reqs |-> NoCalls]
    /\ resp = [r \in Reqs |-> NoResp]
    /\ wpc = "off"
    /\ start_time = 0
    /\ now = 0
    /\ polls = << >>
    /\ wres = [kind |-> "none"]
    /\ tpc = "off"
    /\ treq = NoRequestObject
    /\ tposts = 0
    /\ tpayload = NoPayload
    /\ tsubmit = NoSubmitAnswer
    /\ tres = [kind |-> "none"]
    /\ pin \in PureInputs
    /\ pout = NoOutput

\* "except Exception as e" around client.transcribe: the response made of
\* str(e)
Classify ==
    /\ pin.fn = "classify"
    /\ ~pout.done
    /\ pout' = [done |-> TRUE, value |-> TranscriptionError(pin.error_msg)]
    /\ UNCHANGED <<appVars, waitVars, clientVars, pin>>

\* convert_assemblyai_to_openai_response(assemblyai_response, response_format)
Convert ==
    /\ pin.fn = "convert"
    /\ ~pout.done
    /\ pout' = [done |-> TRUE,
                value |-> convert_assemblyai_to_openai_response(
                              pin.assemblyai_response, pin.response_format)]
    /\ UNCHANGED <<appVars, waitVars, clientVars, pin>>

\* parse_word_boost(prompt)
ParsePrompt ==
    /\ pin.fn = "parse"
    /\ ~pout.done
    /\ pout' = [done |-> TRUE, value |-> parse_word_boost(pin.prompt)]
    /\ UNCHANGED <<appVars, waitVars, clientVars, pin>>

NextPure == Classify \/ Convert \/ ParsePrompt

SpecPure == InitPure /\ [][NextPure]_vars

----------------------------------------------------------------------------
(* Observations used by the properties *)

IsTranscription(r) == req[r].kind = "transcription"

Done(r) == pc[r] = "done"

\* The response of r is the error status_code / error_type / code
IsError(r, status_code, error_type, code) ==
    /\ resp[r].status = status_code
    /\ "detail" \in DOMAIN resp[r]
    /\ resp[r].detail.error.type = error_type
    /\ "code" \in DOMAIN resp[r].detail.error
    /\ resp[r].detail.error.code = code

ErrorCode(r) ==
    IF "detail" \in DOMAIN resp[r] /\ "code" \in DOMAIN resp[r].detail.error
    THEN resp[r].detail.error.code
    ELSE NoCode

\* No upload, submit or poll call was made for r, and no job was built
NoOutboundCall(r) ==
    /\ calls[r] = NoCalls
    /\ frame[r].payload = NoPayload

InvalidModelName(m) == Truthy(m) /\ Lower(m) \notin valid_models

\* The handler of r got its audio URL: the supplied URL passed validation,
\* or the upload of the file returned a hosted URL.
SourceResolved(r) == Truthy(frame[r].final_audio_url)

----------------------------------------------------------------------------
(* Properties *)

\* C1: a transcription request with neither a file nor a URL never causes
\* an outbound call, and its response is 400 / invalid_request_error /
\* missing_audio_input.
C1_MissingAudioInput ==
    \A r \in Reqs :
        (IsTranscription(r) /\ ~req[r].file /\ ~Truthy(req[r].audio_url)) =>
            /\ NoOutboundCall(r)
            /\ Done(r) =>
                  IsError(r, 400, "invalid_request_error", "missing_audio_input")

C1_Witness ==
    \E r \in Reqs :
        /\ IsTranscription(r) /\ ~req[r].file /\ ~Truthy(req[r].audio_url)
        /\ Done(r)
        /\ ErrorCode(r) = "missing_audio_input"

C3_InputErrorBeforeAnyCall ==
    \A r \in Reqs :
        (Done(r) /\ ErrorCode(r) \in {"missing_audio_input", "invalid_audio_url",
                                      "invalid_model"}) =>
            calls[r] = NoCalls

\* The request of r is one the pipeline should carry to the provider: its
\* audio source is resolved, its model name is in the allow-list, and the
\* credential is configured.
ValidRequest(r) ==
    /\ IsTranscription(r)
    /\ SourceResolved(r)
    /\ Truthy(req[r].model) /\ Lower(req[r].model) \in valid_models
    /\ apiKey

\* C4: a valid request whose job the provider accepts and reports completed
\* ends with a success response.
C4_CompletedJobSucceeds ==
    \A r \in Reqs :
        (ValidRequest(r) /\ provider = "completes" /\ Done(r)) =>
            resp[r].status = 200

\* C7: a valid request whose job the provider reports as processing for
\* longer than the maximum wait ends with 408 / timeout_error /
\* transcription_timeout.
C7_ProcessingForEverTimesOut ==
    \A r \in Reqs :
        (ValidRequest(r) /\ provider = "processing" /\ Done(r)) =>
            IsError(r, 408, "timeout_error", "transcription_timeout")

\* The handler of a is inside client.transcribe
InFlight(a) == pc[a] = "submitting"

\* C9: while one request is inside client.transcribe, another request that
\* has arrived can be served.
C9_NoBlocking ==
    \A a, b \in Reqs :
        (a # b /\ InFlight(a) /\ pc[b] = "pending") =>
            ENABLED (health_check(b) \/ create_transcription(b))

\* The k-th poll reported this status
Reported(k, status) == polls[k].kind = "json" /\ polls[k].status = status

\* wait_for_completion is over, by a return or a raise
WaitOver == wpc = "done"

\* C5: wait_for_completion returns at the first poll that reports
\* completed and at no other: a poll that reports completed is the last
\* poll made and its payload is what was returned, and a return happens
\* only on such a poll (so [queued, processing, completed] returns after
\* exactly 3 polls).
C5_ReturnsAtFirstCompleted ==
    /\ \A k \in 1..Len(polls) :
          Reported(k, "completed") =>
              /\ k = Len(polls)
              /\ WaitOver
              /\ wres.kind = "returned"
              /\ wres.payload = polls[k]
    /\ (WaitOver /\ wres.kind = "returned") =>
          /\ Len(polls) >= 1
          /\ Reported(Len(polls), "completed")

C5_Witness ==
    /\ Len(polls) = 3
    /\ Reported(1, "queued")
    /\ Reported(2, "processing")
    /\ Reported(3, "completed")
    /\ WaitOver
    /\ wres.kind = "returned"

\* C6: a poll that reports status error is the last poll made, and
\* wait_for_completion has raised "Transcription failed: " followed by the
\* provider's message.
C6_ErrorRaisesImmediately ==
    \A k \in 1..Len(polls) :
        Reported(k, "error") =>
            /\ k = Len(polls)
            /\ WaitOver
            /\ wres.kind = "raised"
            /\ wres.msg = P_failed \o ProviderError(polls[k])
            /\ Contains(wres.msg, polls[k].error)

C6_Witness ==
    /\ Len(polls) = 2
    /\ Reported(1, "processing")
    /\ Reported(2, "error")
    /\ polls[2].error = E_bad_audio
    /\ WaitOver
    /\ wres.kind = "raised"
    /\ Contains(wres.msg, E_bad_audio)

\* C8: a failed poll never ends the loop: when wait_for_completion is over
\* and its last poll was a failure, it is over by the timeout.
C8_PollFailureNeverEndsLoop ==
    (WaitOver /\ Len(polls) >= 1 /\ polls[Len(polls)].kind # "json") =>
        /\ wres.kind = "raised"
        /\ wres.msg = E_wait_timeout
        /\ ~WithinBudget(now, start_time)

\* C10: a failure whose run did not exhaust the polling budget is never
\* classified as the timeout: when wait_for_completion raises what the
\* handler classifies as transcription_timeout, the budget is exhausted.
C10_TimeoutOnlyWhenBudgetExhausted ==
    (WaitOver /\ wres.kind = "raised"
        /\ ClassifyError(wres.msg).code = "transcription_timeout") =>
        /\ wres.msg = E_wait_timeout
        /\ ~WithinBudget(now, start_time)

\* The categories in the order they are tried, each with its substrings
Categories ==
    << [keys |-> {S_timeout}, status |-> 408,
        type |-> "timeout_error", code |-> "transcription_timeout"],
       [keys |-> {S_invalid, S_bad_request}, status |-> 400,
        type |-> "invalid_request_error", code |-> "invalid_audio"],
       [keys |-> {S_unauthorized}, status |-> 401,
        type |-> "authentication_error", code |-> "invalid_api_key"],
       [keys |-> {S_not_found}, status |-> 404,
        type |-> "not_found_error", code |-> "audio_not_found"] >>

\* The categories a text matches, whatever its casing
Hits(error_msg) ==
    { k \in 1..Len(Categories) :
        \E key \in Categories[k].keys : Contains(Lower(error_msg), key) }

\* The response is the error status_code / error_type / code with message
IsErrorValue(response, status_code, error_type, code, message) ==
    /\ response.status = status_code
    /\ response.detail.error =
          [message |-> message, type |-> error_type, code |-> code]

\* C11: a failure raised by client.transcribe is answered with the category
\* of the first of timeout / invalid or bad request / unauthorized /
\* not found that its text holds as a substring in any casing, and with
\* 500 / api_error / transcription_failed when it holds none; the message
\* is the text itself.
C11_ClassifiedByFirstMatch ==
    (pin.fn = "classify" /\ pout.done) =>
        LET hits == Hits(pin.error_msg)
        IN  IF hits = {}
            THEN IsErrorValue(pout.value, 500, "api_error",
                              "transcription_failed", pin.error_msg)
            ELSE LET first == CHOOSE k \in hits : \A j \in hits : k <= j
                 IN  IsErrorValue(pout.value, Categories[first].status,
                                  Categories[first].type,
                                  Categories[first].code, pin.error_msg)

\* A text in mixed case that holds the substrings of three categories is
\* answered with the first of them
C11_Witness ==
    /\ pin.fn = "classify"
    /\ pout.done
    /\ pin.error_msg = F_NotFound \o F_Invalid \o F_TimeOut
    /\ pout.value.status = 408

\* A conversion to a structured response has been made
Structured ==
    /\ pin.fn = "convert"
    /\ pin.response_format # "text"
    /\ pout.done

Carries(key) ==
    /\ key \in DOMAIN pin.assemblyai_response
    /\ pin.assemblyai_response[key] # << >>

\* The segments of the structured response are made of the items, one
\* each and in their order
SegmentsFrom(items) ==
    /\ "segments" \in DOMAIN pout.value
    /\ Len(pout.value.segments) = Len(items)
    /\ \A k \in 1..Len(items) :
          /\ pout.value.segments[k].seek = items[k].start
          /\ pout.value.segments[k].end = TrueDiv(items[k].end, 1000)
          /\ pout.value.segments[k].text = items[k].text

\* C13: the segments of a structured response come from one list: from the
\* utterances, one each and each with a speaker field, when the payload has
\* utterances (whether or not it has words); from the words, one each and
\* none with a speaker field, when it has words only; and the response has
\* no segments field when it has neither.
C13_SegmentsFromOneSource ==
    Structured =>
        IF Carries("utterances")
        THEN /\ SegmentsFrom(pin.assemblyai_response.utterances)
             /\ \A k \in 1..Len(pout.value.segments) :
                   "speaker" \in DOMAIN pout.value.segments[k]
        ELSE IF Carries("words")
        THEN /\ SegmentsFrom(pin.assemblyai_response.words)
             /\ \A k \in 1..Len(pout.value.segments) :
                   "speaker" \notin DOMAIN pout.value.segments[k]
        ELSE "segments" \notin DOMAIN pout.value

\* Two words and one utterance: one segment, that of the utterance
C13_Witness ==
    /\ Structured
    /\ Carries("utterances")
    /\ Carries("words")
    /\ Len(pin.assemblyai_response.words) = 2
    /\ Len(pin.assemblyai_response.utterances) = 1
    /\ Len(pout.value.segments) = 1
    /\ pout.value.segments[1].text = pin.assemblyai_response.utterances[1].text

\* C14: the value returned for the format text is the text field of the
\* structured response built from the same payload, and the text field of
\* a structured response is the value returned for the format text.
C14_TextFormatIsStructuredText ==
    (pin.fn = "convert" /\ pout.done) =>
        IF pin.response_format = "text"
        THEN pout.value =
                convert_assemblyai_to_openai_response(
                    pin.assemblyai_response, "json").text
        ELSE pout.value.text =
                convert_assemblyai_to_openai_response(
                    pin.assemblyai_response, "text")

\* The text format of a payload whose utterances and words read otherwise
C14_Witness ==
    /\ pin.fn = "convert"
    /\ pin.response_format = "text"
    /\ pout.done
    /\ Carries("utterances")
    /\ Carries("words")
    /\ pin.assemblyai_response.utterances[1].text = T_there
    /\ "text" \in DOMAIN pin.assemblyai_response
    /\ pout.value = T_hello

\* The characters the claim names as separators
Separators == {","} \cup Whitespace

\* Where the tokens of s begin: at a character that is no separator and
\* follows a separator or nothing
TokenStarts(s) ==
    { i \in 1..Len(s) :
        s[i] \notin Separators /\ (i = 1 \/ s[i - 1] \in Separators) }

\* Where the token that begins at i ends
TokenEnd(s, i) ==
    CHOOSE j \in i..Len(s) :
        /\ \A k \in i..j : s[k] \notin Separators
        /\ j = Len(s) \/ s[j + 1] \in Separators

\* words holds the tokens of s: as many, in their order, as written
IsTokensOf(words, s) ==
    /\ Len(words) = Cardinality(TokenStarts(s))
    /\ \A i \in TokenStarts(s) :
          words[1 + Cardinality({ j \in TokenStarts(s) : j < i })]
              = SubSeq(s, i, TokenEnd(s, i))

\* C15: parse_word_boost returns the maximal runs of characters of the
\* prompt that are neither whitespace nor comma, in their order, unchanged
\* and with repetitions; and it returns None, not an empty list, when the
\* prompt is None or empty or has no such run.
C15_BoostWords ==
    (pin.fn = "parse" /\ pout.done) =>
        IF TokenStarts(pin.prompt) = {}
        THEN pout.value = Nothing
        ELSE /\ pout.value # Nothing
             /\ IsTokensOf(pout.value[1], pin.prompt)

C15_Witness ==
    /\ pin.fn = "parse"
    /\ pout.done
    /\ pin.prompt = PR_fire
    /\ pout.value = Some(<<W_fire, W_smoke, W_Canada>>)

\* The model name of r is one of the allow-list in some casing
AllowedModelName(r) ==
    /\ IsTranscription(r)
    /\ req[r].model_supplied
    /\ Lower(req[r].model) \in valid_models

\* C16: for a model name that is best, slam-1 or universal in any casing
\* the mapper returns the name lower-cased, the request is not rejected as
\* invalid_model, and once the request has passed its checks a job has been
\* submitted whose speech_model is the lower-cased name.
C16_CanonicalModelSubmitted ==
    \A r \in Reqs :
        AllowedModelName(r) =>
            /\ map_openai_model_to_speech_model(req[r].model) = Lower(req[r].model)
            /\ ErrorCode(r) # "invalid_model"
            /\ (Done(r) /\ SourceResolved(r) /\ apiKey) =>
                  /\ calls[r].submit = 1
                  /\ "speech_model" \in DOMAIN frame[r].payload
                  /\ frame[r].payload.speech_model = Lower(req[r].model)

\* C17: a request that supplies no model name is not rejected with
\* invalid_model, and once it has passed its checks a job has been
\* submitted that carries no speech_model.
C17_AbsentModelAccepted ==
    \A r \in Reqs :
        (IsTranscription(r) /\ ~req[r].model_supplied) =>
            /\ ErrorCode(r) # "invalid_model"
            /\ (Done(r) /\ SourceResolved(r) /\ apiKey) =>
                  /\ calls[r].submit = 1
                  /\ "speech_model" \notin DOMAIN frame[r].payload

\* The upload of r's file was answered, and not with a hosted URL
UploadFailed(r) ==
    \/ frame[r].upload_answer.kind = "fail"
    \/ /\ frame[r].upload_answer.kind = "ok"
       /\ ~Truthy(frame[r].upload_answer.upload_url)

\* C18: when the upload of the file fails (a transport failure, a non-2xx
\* answer, or an answer without a hosted URL) the request is over with
\* 400 / invalid_request_error / file_upload_failed, after that one upload
\* call and with no job built, no submit call and no poll.
C18_UploadFailureAborts ==
    \A r \in Reqs :
        UploadFailed(r) =>
            /\ Done(r)
            /\ IsError(r, 400, "invalid_request_error", "file_upload_failed")
            /\ calls[r] = [upload |-> 1, submit |-> 0, poll |-> 0]
            /\ frame[r].payload = NoPayload
            /\ ~SourceResolved(r)

\* The provider answered 2xx without a hosted URL
C18_Witness ==
    \E r \in Reqs :
        /\ IsTranscription(r)
        /\ req[r].file
        /\ frame[r].upload_answer.kind = "ok"
        /\ ~Truthy(frame[r].upload_answer.upload_url)
        /\ Done(r)
        /\ ErrorCode(r) = "file_upload_failed"

\* The request of r carries a URL and no file, and its handler has run
UrlOnlyStarted(r) ==
    /\ IsTranscription(r)
    /\ ~req[r].file
    /\ Truthy(req[r].audio_url)
    /\ pc[r] \notin {"idle", "pending"}

\* The two conditions on a URL, as the claim words them
SchemeOk(url) ==
    \E scheme \in {S_http, S_https} :
        /\ Len(url) >= Len(scheme)
        /\ SubSeq(url, 1, Len(scheme)) = scheme

NamesAudio(url) ==
    \E mark \in {S_wav, S_mp3, S_m4a, S_flac, S_ogg, S_aac, S_wma, S_audio} :
        \E i \in 1..(Len(url) - Len(mark) + 1) :
            Lower(SubSeq(url, i, i + Len(mark) - 1)) = mark

\* C19: a URL-only request whose URL lacks the scheme http:// or https://,
\* or names neither an audio extension nor "audio" in any casing, is over
\* with 400 / invalid_request_error / invalid_audio_url and no outbound
\* call; a URL with both passes validation and becomes the audio URL.
C19_UrlValidation ==
    \A r \in Reqs :
        UrlOnlyStarted(r) =>
            IF SchemeOk(req[r].audio_url) /\ NamesAudio(req[r].audio_url)
            THEN /\ frame[r].final_audio_url = req[r].audio_url
                 /\ ErrorCode(r) # "invalid_audio_url"
            ELSE /\ Done(r)
                 /\ IsError(r, 400, "invalid_request_error", "invalid_audio_url")
                 /\ NoOutboundCall(r)
                 /\ ~SourceResolved(r)

\* A URL with the scheme that names no audio is rejected
C19_Witness ==
    \E r \in Reqs :
        /\ UrlOnlyStarted(r)
        /\ req[r].audio_url = U_txt
        /\ Done(r)
        /\ ErrorCode(r) = "invalid_audio_url"
        /\ NoOutboundCall(r)

\* The post of the job failed, or was answered without a job id
SubmitFailed ==
    \/ tsubmit.kind = "fail"
    \/ /\ tsubmit.kind = "ok"
       /\ ~Truthy(tsubmit.id)

\* C20: transcribe posts the job at most once; when the post fails or its
\* answer carries no job id, transcribe is over with an exception after
\* that one post, and no poll has been made; and when the parameters cannot
\* be built nothing is posted or polled.
C20_SubmitOnceNoRetry ==
    /\ tposts <= 1
    /\ SubmitFailed =>
          /\ tpc = "done"
          /\ tres.kind = "raised"
          /\ tposts = 1
          /\ polls = << >>
          /\ wpc = "off"
    /\ (tpc = "done" /\ tposts = 0) =>
          /\ tres.kind = "raised"
          /\ polls = << >>

\* A post answered with a non-2xx status
C20_Witness ==
    /\ tsubmit.kind = "fail"
    /\ tsubmit.text = E_http500
    /\ tpc = "done"
    /\ tres = [kind |-> "raised", msg |-> P_submit_failed \o E_http500]
    /\ tposts = 1
    /\ polls = << >>

\* The request of r carries an audio source that passes validation: a
\* file, or a URL with the scheme that names audio
HasValidSource(r) ==
    \/ req[r].file
    \/ SchemeOk(req[r].audio_url) /\ NamesAudio(req[r].audio_url)

\* C21: without the credential, a request with a valid audio source and a
\* model name of the allow-list makes no outbound call and builds no job,
\* and ends with 500 / api_error / missing_api_key.
C21_MissingApiKey ==
    \A r \in Reqs :
        (/\ IsTranscription(r)
         /\ ~apiKey
         /\ HasValidSource(r)
         /\ Lower(req[r].model) \in valid_models) =>
            /\ NoOutboundCall(r)
            /\ Done(r) => IsError(r, 500, "api_error", "missing_api_key")

\* A URL-only request that passed the URL and the model check
C21_Witness ==
    \E r \in Reqs :
        /\ IsTranscription(r)
        /\ ~apiKey
        /\ ~req[r].file
        /\ HasValidSource(r)
        /\ Lower(req[r].model) \in valid_models
        /\ frame[r].assemblyai_request # NoRequestObject
        /\ Done(r)
        /\ ErrorCode(r) = "missing_api_key"
        /\ NoOutboundCall(r)

\* The request served through client.transcribe has been answered
Answered == resp[One] # NoResp

\* The response is an error object and nothing else
IsErrorObject(response) ==
    /\ DOMAIN response = {"status", "detail"}
    /\ response.status # 200
    /\ DOMAIN response.detail = {"error"}
    /\ DOMAIN response.detail.error \subseteq {"message", "type", "code"}

\* C22: a request is answered with a success response or with an error
\* object, never both; with a success response only when the last poll
\* reported completed; and with an error object and no transcript data
\* when the submission failed, the provider reported an error or the wait
\* timed out.
C22_AllOrNothing ==
    Answered =>
        /\ tpc = "done"
        /\ IF resp[One].status = 200
           THEN /\ DOMAIN resp[One] = {"status", "body"}
                /\ tres.kind = "returned"
                /\ Len(polls) >= 1
                /\ Reported(Len(polls), "completed")
                /\ tposts = 1
           ELSE IsErrorObject(resp[One])
        /\ (\/ SubmitFailed
            \/ tposts = 0
            \/ Len(polls) >= 1 /\ ~Reported(Len(polls), "completed")
            \/ tres = [kind |-> "raised", msg |-> E_wait_timeout]) =>
              IsErrorObject(resp[One])

\* A success after queued, completed
C22_Witness ==
    /\ Answered
    /\ resp[One].status = 200
    /\ Len(polls) = 2
    /\ Reported(1, "queued")
    /\ Reported(2, "completed")

\* A status answer whose status is none of the four the loop knows
Unrecognised(answer) ==
    /\ answer.kind = "json"
    /\ answer.status \notin {"queued", "processing", "completed", "error"}

\* C23: on a poll answer with an unrecognised or missing status
\* wait_for_completion neither returns nor raises but sleeps; the sleep
\* lasts the poll interval; and after it the loop polls again unless the
\* budget is used up, in which case it raises the timeout.
C23_UnknownStatusNonTerminal ==
    [][ /\ (/\ wpc = "poll"
            /\ Len(polls') = Len(polls) + 1
            /\ Unrecognised(polls'[Len(polls')])) =>
               (wpc' = "sleep" /\ wres' = wres)
        /\ wpc = "sleep" =>
               (wpc' = "loop" /\ now' = now + poll_interval /\ polls' = polls)
        /\ wpc = "loop" =>
               IF WithinBudget(now, start_time)
               THEN wpc' = "poll" /\ wres' = wres
               ELSE wpc' = "done" /\ wres' = [kind |-> "raised", msg |-> E_wait_timeout]
      ]_vars

\* Polled again after a status the loop does not know, and after a missing one
C23_Witness ==
    /\ Len(polls) = 3
    /\ Reported(1, "paused")
    /\ Reported(2, "absent")
    /\ wres = [kind |-> "none"]
    /\ now >= start_time + 2 * poll_interval

IsHealth(r) == req[r].kind = "health"

\* C24: the health probe answers 200 with the fixed status "healthy" and the
\* current timestamp, whatever state the other requests are in; it makes no
\* outbound call; and its step changes nothing of any other request.
C24_HealthProbe ==
    [][ \A r \in Reqs :
           (IsHealth(r) /\ pc[r] = "pending" /\ pc'[r] = "done") =>
               /\ resp'[r] = [status |-> 200,
                              body |-> [status |-> "healthy", timestamp |-> now]]
               /\ calls' = calls
               /\ calls[r] = NoCalls
               /\ frame' = frame
               /\ frame[r] = NoFrame
               /\ req' = req
               /\ provider' = provider
               /\ \A s \in Reqs \ {r} : pc'[s] = pc[s] /\ resp'[s] = resp[s]
      ]_vars

\* A health probe answered while a transcription request is under way
C24_Witness ==
    \E r \in Reqs : \E s \in Reqs \ {r} :
        /\ IsHealth(r)
        /\ Done(r)
        /\ resp[r].status = 200
        /\ IsTranscription(s)
        /\ pc[s] \notin {"idle", "pending", "done"}

LastPoll == polls[Len(polls)]

\* wait_for_completion ended by returning the payload reported completed
EndedCompleted ==
    /\ wres.kind = "returned"
    /\ Len(polls) >= 1
    /\ Reported(Len(polls), "completed")
    /\ wres.payload = LastPoll

\* wait_for_completion ended by raising the error the provider reported
EndedProviderError ==
    /\ wres.kind = "raised"
    /\ Len(polls) >= 1
    /\ Reported(Len(polls), "error")
    /\ wres.msg = P_failed \o ProviderError(LastPoll)

\* wait_for_completion ended by raising the timeout, its budget used up
EndedTimeout ==
    /\ wres = [kind |-> "raised", msg |-> E_wait_timeout]
    /\ ~WithinBudget(now, start_time)

\* C25: for every sequence of poll answers and poll failures
\* wait_for_completion ends with the completed payload, the provider's
\* error or the timeout error, and a poll is issued only while the elapsed
\* time is below the maximum wait.
C25_EndsWithOneOfThree ==
    /\ WaitOver => (EndedCompleted \/ EndedProviderError \/ EndedTimeout)
    /\ wpc = "poll" => WithinBudget(now, start_time)

\* The list the segments of the structured response are made from
SegmentItems ==
    IF Carries("utterances") THEN pin.assemblyai_response.utterances
    ELSE IF Carries("words") THEN pin.assemblyai_response.words
    ELSE << >>

\* C26: in every segment list the segment at position i (from 0) has id i,
\* seek equal to its item's raw start in milliseconds, start and end equal
\* to the raw start and end divided by 1000, an empty token list and
\* temperature, avg_logprob and no_speech_prob 0; and the segment of an
\* utterance without a speaker has the speaker "Unknown".
C26_SegmentFields ==
    (Structured /\ "segments" \in DOMAIN pout.value) =>
        LET segments == pout.value.segments
            items == SegmentItems
        IN  /\ Len(segments) = Len(items)
            /\ \A k \in 1..Len(segments) :
                  /\ segments[k].id = k - 1
                  /\ segments[k].seek = items[k].start
                  /\ segments[k].start = TrueDiv(items[k].start, 1000)
                  /\ segments[k].end = TrueDiv(items[k].end, 1000)
                  /\ segments[k].tokens = << >>
                  /\ segments[k].temperature = Float(0)
                  /\ segments[k].avg_logprob = Float(0)
                  /\ segments[k].no_speech_prob = Float(0)
                  /\ (Carries("utterances") /\ "speaker" \notin DOMAIN items[k]) =>
                        segments[k].speaker = "Unknown"

\* Two utterance segments, the second from an utterance without a speaker
\* that starts at 1500 ms
C26_Witness ==
    /\ Structured
    /\ Carries("utterances")
    /\ Len(pout.value.segments) = 2
    /\ pout.value.segments[1].id = 0
    /\ pout.value.segments[1].speaker = "A"
    /\ pout.value.segments[2].id = 1
    /\ pout.value.segments[2].seek = 1500
    /\ pout.value.segments[2].start = [num |-> 3, den |-> 2]
    /\ pout.value.segments[2].speaker = "Unknown"

\* submit_transcription has built the job of r
JobBuilt(r) == frame[r].payload # NoPayload

\* C27: every job built for submission carries a non-empty audio URL, the
\* one the handler resolved (the hosted URL of the upload for a file, the
\* supplied URL otherwise), with punctuate and format_text true; and no
\* request reaches client.transcribe without a resolved URL.
C27_SubmittedJobHasUrl ==
    \A r \in Reqs :
        /\ pc[r] \in {"transcribe", "submitting"} => SourceResolved(r)
        /\ calls[r].submit > 0 => JobBuilt(r)
        /\ JobBuilt(r) =>
              /\ Truthy(frame[r].payload.audio_url)
              /\ frame[r].payload.audio_url = frame[r].final_audio_url
              /\ frame[r].payload.audio_url =
                    (IF req[r].file THEN frame[r].upload_answer.upload_url
                     ELSE req[r].audio_url)
              /\ frame[r].payload.punctuate = TRUE
              /\ frame[r].payload.format_text = TRUE

\* The job of an uploaded file, built with the hosted URL
C27_Witness ==
    \E r \in Reqs :
        /\ IsTranscription(r)
        /\ req[r].file
        /\ JobBuilt(r)
        /\ frame[r].payload.audio_url = U_hosted
        /\ frame[r].payload.punctuate

\* r carries both an inline file and a URL
FileAndUrl(r) ==
    /\ IsTranscription(r)
    /\ req[r].file
    /\ Truthy(req[r].audio_url)

\* The upload of r's file was answered with a hosted URL
Uploaded(r) ==
    /\ frame[r].upload_answer.kind = "ok"
    /\ Truthy(frame[r].upload_answer.upload_url)

\* The file of r is its audio source: the supplied URL was not validated,
\* the file was uploaded once and the job was built with the hosted URL
FileIsSource(r) ==
    /\ ErrorCode(r) # "invalid_audio_url"
    /\ (Done(r) /\ apiKey) => calls[r].upload = 1
    /\ JobBuilt(r) =>
          /\ Uploaded(r)
          /\ frame[r].payload.audio_url = frame[r].upload_answer.upload_url
          /\ frame[r].payload.audio_url # req[r].audio_url

\* C28: a request with both a file and a URL uses the file: the supplied
\* URL is not validated (no invalid_audio_url, however ill-formed it is),
\* the file is uploaded, and once the upload gave a hosted URL and the model
\* passed, the job has been submitted with the hosted URL and not with the
\* supplied one.
C28_FileTakesPrecedence ==
    \A r \in Reqs :
        FileAndUrl(r) =>
            /\ FileIsSource(r)
            /\ (Done(r) /\ apiKey /\ Uploaded(r)
                  /\ Lower(req[r].model) \in valid_models) =>
                    /\ JobBuilt(r)
                    /\ calls[r].submit = 1

\* The order of r's outbound calls, as far as one state shows it
CallOrder(r) ==
    /\ calls[r].upload <= 1
    /\ calls[r].upload = 1 => (IsTranscription(r) /\ req[r].file)
    /\ calls[r].submit <= 1
    /\ calls[r].submit = 1 => JobBuilt(r)
    /\ JobBuilt(r) =>
          /\ SourceResolved(r)
          /\ ~InvalidModelName(req[r].model)
          /\ req[r].file => calls[r].upload = 1
          /\ ~req[r].file => calls[r].upload = 0
    /\ calls[r].poll >= 1 => calls[r].submit = 1

UrlOnlyDone(r) ==
    /\ UrlOnlyStarted(r)
    /\ Done(r)

\* The response of r is one error object and nothing else
OneError(r) ==
    /\ DOMAIN resp[r] = {"status", "detail"}
    /\ DOMAIN resp[r].detail = {"error"}

\* C30: a URL-only request is answered with the error of the first check it
\* fails, in the order URL shape (invalid_audio_url), model name
\* (invalid_model), credential (missing_api_key), whatever later checks it
\* would fail as well; the response is that one error, and the checks after
\* the failed one are not made (no request object built, no client
\* constructed, no call).
C30_FirstFailedCheckWins ==
    \A r \in Reqs :
        UrlOnlyDone(r) =>
            IF ~(SchemeOk(req[r].audio_url) /\ NamesAudio(req[r].audio_url))
            THEN /\ IsError(r, 400, "invalid_request_error", "invalid_audio_url")
                 /\ OneError(r)
                 /\ frame[r] = NoFrame
                 /\ calls[r] = NoCalls
            ELSE IF InvalidModelName(req[r].model)
            THEN /\ IsError(r, 400, "invalid_request_error", "invalid_model")
                 /\ OneError(r)
                 /\ frame[r].assemblyai_request = NoRequestObject
                 /\ ~frame[r].client
                 /\ NoOutboundCall(r)
            ELSE ~apiKey =>
                 /\ IsError(r, 500, "api_error", "missing_api_key")
                 /\ OneError(r)
                 /\ ~frame[r].client
                 /\ NoOutboundCall(r)

\* A request failing all three checks, answered invalid_audio_url
C30_Witness ==
    \E r \in Reqs :
        /\ UrlOnlyDone(r)
        /\ req[r].audio_url = U_ftp
        /\ InvalidModelName(req[r].model)
        /\ ~apiKey
        /\ ErrorCode(r) = "invalid_audio_url"

\* The payload holds the key with an empty list
CarriesEmpty(key) ==
    /\ key \in DOMAIN pin.assemblyai_response
    /\ pin.assemblyai_response[key] = << >>

\* C31: a structured response that has a segments field has at least one
\* segment in it, and a payload whose utterance list is empty and whose
\* word list is not yields the segments of its words, one each and none
\* with a speaker.
C31_SegmentsNeverEmpty ==
    Structured =>
        /\ "segments" \in DOMAIN pout.value => Len(pout.value.segments) >= 1
        /\ (CarriesEmpty("utterances") /\ Carries("words")) =>
              /\ SegmentsFrom(pin.assemblyai_response.words)
              /\ \A k \in 1..Len(pout.value.segments) :
                    /\ pout.value.segments[k] =
                          word_segment(pin.assemblyai_response.words[k], k - 1)
                    /\ "speaker" \notin DOMAIN pout.value.segments[k]

\* An empty utterance list and two words: two word segments
C31_Witness ==
    /\ Structured
    /\ CarriesEmpty("utterances")
    /\ Carries("words")
    /\ Len(pin.assemblyai_response.words) = 2
    /\ "segments" \in DOMAIN pout.value
    /\ Len(pout.value.segments) = 2
    /\ pout.value.segments[2].text = pin.assemblyai_response.words[2].text

\* The generic error: 500 / api_error / "Internal server error", no code
GenericError ==
    [status |-> 500,
     detail |-> [error |-> [message |-> M_internal, type |-> "api_error"]]]

\* client.transcribe returned a payload that cannot be reshaped: one of
\* its utterances has null for its start
Unreshapable ==
    /\ tres.kind = "returned"
    /\ "utterances" \in DOMAIN tres.payload
    /\ \E k \in 1..Len(tres.payload.utterances) :
          tres.payload.utterances[k].start = JsonNull

\* C32: a failure raised by client.transcribe is answered with its
\* classified error, code included, and never with the generic error; a
\* payload whose reshaping fails is answered with the generic error 500 /
\* api_error / "Internal server error" that has no code field (or, for the
\* text format, which reshapes nothing, with its text); and the generic
\* error is the answer to nothing else.
C32_GenericErrorForUnclassified ==
    Answered =>
        /\ tres.kind = "raised" =>
              LET classified == ClassifyError(tres.msg)
              IN  /\ resp[One].status = classified.status
                  /\ resp[One].detail.error.message = tres.msg
                  /\ resp[One].detail.error.type = classified.type
                  /\ "code" \in DOMAIN resp[One].detail.error
                  /\ resp[One].detail.error.code = classified.code
                  /\ resp[One] # GenericError
        /\ Unreshapable =>
              IF resp[One].status = 200
              THEN resp[One].body = Get(tres.payload, "text", NoText)
              ELSE resp[One] = GenericError
        /\ (resp[One].status # 200 /\ resp[One] = GenericError) => Unreshapable
        /\ (tres.kind = "returned" /\ ~Unreshapable) => resp[One].status = 200

\* A completed job with a null start, answered with the generic error
C32_Witness ==
    /\ Answered
    /\ Unreshapable
    /\ resp[One].status = 500
    /\ "code" \notin DOMAIN resp[One].detail.error
    /\ resp[One].detail.error.message = M_internal

=============================================================================
